---- MODULE Spec2Model ----
(***************************************************************************)
(* Model of scripts/fetch_resolvers.py: the record normalizer              *)
(* (Resolver.from_api_response, _to_float), the paginated fetcher          *)
(* (DNSApiClient.fetch_all_servers, _fetch_page), the aggregator           *)
(* (FileGenerator._calculate_stats), the renderer entry point              *)
(* (FileGenerator.generate_all) and main.                                  *)
(***************************************************************************)
EXTENDS Integers, Sequences, FiniteSets, TLC

VARIABLES
    config,         \* the Config object: per_page, max_retries
    remote,         \* the remote dataset: the raw records the API serves, in its order
    pc,             \* position of main: "start", "get", "returned", "generate", "exit"
    page,           \* fetch_all_servers: the page counter
    attempt,        \* _fetch_page: the loop variable of range(max_retries)
    all_servers,    \* fetch_all_servers: the accumulator
    requested,      \* history: the page numbers _fetch_page was called with, in order
    log,            \* history: every HTTP GET and every time.sleep, in order, from
                    \* the successful GET of the page before the one in progress
    rate_sleeps,    \* history: how many times rate_limit_delay was slept
    files,          \* the artifact files written so far: path -> content
    stats,          \* the value generate_all returned (NoStats before)
    exit_code,      \* the process exit code (-1 while running)
    exit_path,      \* which branch of main ended the run
    raw,            \* normalizer harness: the raw record under test
    norm,           \* normalizer harness: the result of from_api_response
    coll,           \* aggregator, renderer harness: the Resolver collection under test
    agg,            \* aggregator harness: the result of _calculate_stats
    runs            \* renderer harness: the calls of generate_all made so far

vars == <<config, remote, pc, page, attempt, all_servers, requested, log,
          rate_sleeps, files, stats, exit_code, exit_path, raw, norm, coll, agg, runs>>

mainVars == <<config, remote, pc, page, attempt, all_servers, requested, log,
              rate_sleeps, files, stats, exit_code, exit_path>>

harnessVars == <<raw, norm, coll, agg, runs>>

(***************************************************************************)
(* Python values.  Every value is a record of the same shape, so that      *)
(* values of different Python types can be compared: t is the type, s the  *)
(* text of a str (or "nan" for the float NaN), n the number of an int,     *)
(* float or bool (or the length of a list).  Floats are modelled by the    *)
(* integers they equal (percentages 0.0, 50.0, 99.0, 100.0).               *)
(***************************************************************************)
PyNone == [t |-> "none", s |-> "", n |-> 0]

PyStr(x) == [t |-> "str", s |-> x, n |-> 0]

PyInt(i) == [t |-> "int", s |-> "", n |-> i]

PyFloat(i) == [t |-> "float", s |-> "", n |-> i]

PyBool(b) == [t |-> "bool", s |-> "", n |-> IF b THEN 1 ELSE 0]

\* float("nan")
PyNaN == [t |-> "float", s |-> "nan", n |-> 0]

\* an int beyond the range of a float, such as 10**400 (json.loads yields it
\* for a long integer literal)
PyBigInt == [t |-> "bigint", s |-> "", n |-> 0]

\* a JSON array given where a scalar was expected: the non-empty list [0]
PyList == [t |-> "list", s |-> "", n |-> 1]

\* Python's truth value of v, as "if v:" and "not v" compute it
Truthy(v) ==
    CASE v.t = "none" -> FALSE
      [] v.t = "str" -> v.s # ""
      [] v.t = "list" -> v.n # 0
      [] v.t = "bigint" -> TRUE
      [] OTHER -> (v.n # 0 \/ v.s = "nan")

IsNumber(v) == v.t \in {"int", "float", "bool"}

\* Python's a == b for the values of the model: numbers compare by value
\* across int, float and bool, NaN equals nothing, other types by type and text
PyEq(a, b) ==
    IF IsNumber(a) /\ IsNumber(b)
    THEN a.s # "nan" /\ b.s # "nan" /\ a.n = b.n
    ELSE a = b

\* Python's a >= b between floats: false when either is NaN
PyGe(a, b) == a.s # "nan" /\ b.s # "nan" /\ a.n >= b.n

\* the decimal literals float() parses, with their values
FloatLiterals == {<<"0", 0>>, <<"50", 50>>, <<"99", 99>>, <<"100", 100>>}

\* float(s) for a str s: the parsed number, NaN for "nan", and ValueError
\* (raised |-> "ValueError") for anything that is not a number
FloatOfStr(s) ==
    IF \E p \in FloatLiterals : p[1] = s
    THEN [raised |-> "", v |-> PyFloat((CHOOSE p \in FloatLiterals : p[1] = s)[2])]
    ELSE IF s = "nan"
    THEN [raised |-> "", v |-> PyNaN]
    ELSE [raised |-> "ValueError", v |-> PyNone]

\* the builtin float(value): what it returns, or the exception it raises
PyFloatOf(value) ==
    CASE value.t = "float" -> [raised |-> "", v |-> value]
      [] value.t \in {"int", "bool"} -> [raised |-> "", v |-> PyFloat(value.n)]
      [] value.t = "str" -> FloatOfStr(value.s)
      [] value.t = "bigint" -> [raised |-> "OverflowError", v |-> PyNone]
      [] OTHER -> [raised |-> "TypeError", v |-> PyNone]

\* _to_float(value, default): None gives the default; ValueError and
\* TypeError are caught and give the default; any other exception escapes
to_float(value, default) ==
    IF value.t = "none"
    THEN [raised |-> "", v |-> default]
    ELSE IF PyFloatOf(value).raised \in {"ValueError", "TypeError"}
    THEN [raised |-> "", v |-> default]
    ELSE PyFloatOf(value)

\* dict.get(key, default)
Get(data, key, default) == IF key \in DOMAIN data THEN data[key] ELSE default

\* the default of _to_float's second parameter
DefaultFloat == PyFloat(0)

\* Resolver.from_api_response(data): the Resolver built, or the exception
\* that escapes one of the four _to_float calls (evaluated in argument order)
from_api_response(data) ==
    LET u24 == to_float(Get(data, "dns_server_uptime_24h", PyNone), DefaultFloat)
        u30 == to_float(Get(data, "dns_server_uptime_30d", PyNone), DefaultFloat)
        u90 == to_float(Get(data, "dns_server_uptime_90d", PyNone), DefaultFloat)
        u1y == to_float(Get(data, "dns_server_uptime_1y", PyNone), DefaultFloat)
        err == IF u24.raised # "" THEN u24.raised
               ELSE IF u30.raised # "" THEN u30.raised
               ELSE IF u90.raised # "" THEN u90.raised
               ELSE u1y.raised
    IN [raised |-> err,
        r |-> [ip |-> Get(data, "dns_server_ip_address", PyStr("")),
               version |-> Get(data, "dns_server_ip_address_version", PyInt(4)),
               country_code |-> Get(data, "country_id", PyStr("")),
               country |-> Get(data, "country_name", PyStr("")),
               continent_code |-> Get(data, "continent_id", PyStr("")),
               continent |-> Get(data, "continent_name", PyStr("")),
               organization |-> Get(data, "dns_server_organization", PyStr("")),
               domain |-> Get(data, "dns_server_domain", PyStr("")),
               trusted |-> Get(data, "dns_server_is_trusted", PyBool(FALSE)),
               anycast |-> Get(data, "dns_server_is_anycast", PyBool(FALSE)),
               dnssec_aware |-> Get(data, "dns_server_dnssec_aware", PyBool(FALSE)),
               dnssec_validating |-> Get(data, "dns_server_dnssec_validating", PyBool(FALSE)),
               ad_blocking |-> Get(data, "dns_server_is_ad_blocking", PyBool(FALSE)),
               malware_blocking |-> Get(data, "dns_server_is_malware_blocking", PyBool(FALSE)),
               adult_blocking |-> Get(data, "dns_server_is_porn_blocking", PyBool(FALSE)),
               uptime_24h |-> u24.v,
               uptime_30d |-> u30.v,
               uptime_90d |-> u90.v,
               uptime_1y |-> u1y.v]]

(***************************************************************************)
(* Config: the dataclass defaults (from_env sets only api_endpoint).       *)
(* per_page and max_retries are fields of the Config object; the model     *)
(* draws them from small ranges.                                           *)
(***************************************************************************)
MaxPerPage == 2

MaxRetries == 3

MaxTotal == 3

retry_delay == 30

rate_limit_delay == 1

high_uptime_threshold == 99

Configs == [per_page : 1..MaxPerPage, max_retries : 1..MaxRetries]

(***************************************************************************)
(* Raw API records: dicts whose keys may be missing and whose values may   *)
(* be null or of another type than expected.                               *)
(***************************************************************************)
RecOnlineV4 ==
    [dns_server_is_online |-> PyBool(TRUE),
     dns_server_ip_address |-> PyStr("1.1.1.1"),
     dns_server_ip_address_version |-> PyInt(4),
     country_id |-> PyStr("US"), country_name |-> PyStr("United States"),
     continent_id |-> PyStr("NA"), continent_name |-> PyStr("North America"),
     dns_server_organization |-> PyStr("Cloudflare"),
     dns_server_is_trusted |-> PyBool(TRUE),
     dns_server_uptime_24h |-> PyFloat(100),
     dns_server_uptime_30d |-> PyFloat(99)]

RecOnlineV6 ==
    [dns_server_is_online |-> PyBool(TRUE),
     dns_server_ip_address |-> PyStr("2001:db8::1"),
     dns_server_ip_address_version |-> PyInt(6),
     country_id |-> PyStr("DE"), country_name |-> PyStr("Germany"),
     continent_id |-> PyStr("EU"), continent_name |-> PyStr("Europe"),
     dns_server_organization |-> PyStr("Quad9"),
     dns_server_uptime_30d |-> PyStr("50"),
     dns_server_uptime_90d |-> PyStr("n/a")]

RecOffline ==
    [dns_server_is_online |-> PyBool(FALSE),
     dns_server_ip_address |-> PyStr("8.8.8.8"),
     dns_server_ip_address_version |-> PyInt(4),
     country_id |-> PyStr("US"), country_name |-> PyStr("United States"),
     continent_id |-> PyStr("NA"), continent_name |-> PyStr("North America")]

\* no online flag at all
RecNoFlag ==
    [dns_server_ip_address |-> PyStr("9.9.9.9"),
     dns_server_ip_address_version |-> PyInt(4),
     country_id |-> PyStr("DE"), country_name |-> PyStr("Germany"),
     continent_id |-> PyStr("EU"), continent_name |-> PyStr("Europe")]

\* the online flag sent as a text instead of a boolean
RecTextFlag ==
    [dns_server_is_online |-> PyStr("false"),
     dns_server_ip_address |-> PyStr("8.8.8.8"),
     dns_server_ip_address_version |-> PyInt(4),
     country_id |-> PyStr("US"), country_name |-> PyStr("United States"),
     continent_id |-> PyStr("NA"), continent_name |-> PyStr("North America")]

\* online, with a null IP address and a null version
RecNoIp ==
    [dns_server_is_online |-> PyBool(TRUE),
     dns_server_ip_address |-> PyNone,
     dns_server_ip_address_version |-> PyNone,
     continent_id |-> PyStr("EU"), continent_name |-> PyStr("Europe"),
     dns_server_uptime_1y |-> PyNone]

\* online, with an uptime sent as an integer too large for a float
RecBigUptime ==
    [dns_server_is_online |-> PyBool(TRUE),
     dns_server_ip_address |-> PyStr("8.8.4.4"),
     dns_server_ip_address_version |-> PyInt(4),
     country_id |-> PyStr("US"), country_name |-> PyStr("United States"),
     dns_server_uptime_24h |-> PyBigInt]

FetchRecords == {RecOnlineV4, RecOnlineV6, RecOffline, RecNoFlag, RecTextFlag,
                 RecNoIp, RecBigUptime}

SeqsUpTo(S, n) == UNION {[1..k -> S] : k \in 0..n}

Min(a, b) == IF a < b THEN a ELSE b

\* the body of the API's answer to GET ?per_page=..&page=p: the p-th slice
\* of the remote dataset, short or empty once the data is exhausted
ApiPage(p) ==
    SubSeq(remote, (p - 1) * config.per_page + 1,
           Min(p * config.per_page, Len(remote)))

(***************************************************************************)
(* History events.                                                         *)
(***************************************************************************)
GetEvent(p, ok) == [e |-> "get", page |-> p, ok |-> ok, d |-> 0]

SleepEvent(kind, p, d) == [e |-> kind, page |-> p, ok |-> TRUE, d |-> d]

(***************************************************************************)
(* fetch_all_servers, lines 189-191: the loop over one page's records.     *)
(* The result is the accumulator after the page, or the exception that     *)
(* escaped from_api_response (the records after it are never looked at).   *)
(***************************************************************************)
\* "if server.get("dns_server_is_online")": the truth value of the flag
is_online(server) == Truthy(Get(server, "dns_server_is_online", PyNone))

\* line 191: all_servers.append(...)
accumulate_front(acc, r) == <<r>> \o acc

accumulate(acc, r) == Append(acc, r)

RECURSIVE append_online(_, _, _)
append_online(servers, i, acc) ==
    IF i > Len(servers) THEN [raised |-> "", acc |-> acc]
    ELSE IF ~is_online(servers[i]) THEN append_online(servers, i + 1, acc)
    ELSE IF from_api_response(servers[i]).raised # ""
    THEN [raised |-> from_api_response(servers[i]).raised, acc |-> acc]
    ELSE append_online(servers, i + 1, accumulate(acc, from_api_response(servers[i]).r))

\* "if len(servers) < self.config.per_page: break"
last_page_le(servers) == Len(servers) <= config.per_page

last_page(servers) == Len(servers) < config.per_page

\* "if attempt < self.config.max_retries - 1": another attempt follows
retry_again_off_by_one(a) == a < config.max_retries

retry_again(a) == a < config.max_retries - 1

\* lines 222-225: what a failed attempt that is not the last one does
failed_attempt_no_sleep(p) == <<GetEvent(p, FALSE)>>

failed_attempt(p) == <<GetEvent(p, FALSE), SleepEvent("retry_sleep", p, retry_delay)>>

\* lines 195-199: how often rate_limit_delay is slept after a page, the
\* last one or not
rate_limit_sleeps_always(is_last) == 1

rate_limit_sleeps(is_last) == IF is_last THEN 0 ELSE 1

\* the events after page p was received
page_received(p, sleeps) ==
    <<GetEvent(p, TRUE)>> \o
    [i \in 1..sleeps |-> SleepEvent("rate_sleep", p, rate_limit_delay)]

\* the history kept in log: once a new page is in progress, the events
\* before the previous page's successful GET are dropped
Recent(lg) ==
    IF lg # <<>> /\ lg[Len(lg)].e = "rate_sleep" /\ Len(lg) >= 2
    THEN SubSeq(lg, Len(lg) - 1, Len(lg))
    ELSE lg

\* main, lines 668-670: the handler a RequestException from
\* fetch_all_servers reaches
RequestExceptionUncaught == "unexpected"

RequestExceptionHandler == "transport"

(***************************************************************************)
(* Sequences and the order of strings.                                     *)
(***************************************************************************)
\* every text the model sorts (IP addresses and codes), in Python's str
\* order (by code point)
StrOrder == <<"", "1.1.1.1", "2001:db8::1", "8.8.4.4", "8.8.8.8", "9.9.9.9",
              "AF", "DE", "EU", "FR", "NA", "US">>

Rank(x) == CHOOSE i \in 1..Len(StrOrder) : StrOrder[i] = x

RECURSIVE SortedStrs(_)
\* sorted(S) for a set S of str
SortedStrs(S) ==
    IF S = {} THEN <<>>
    ELSE LET m == CHOOSE x \in S : \A y \in S : Rank(x) <= Rank(y)
         IN <<m>> \o SortedStrs(S \ {m})

\* the elements of a sequence, as a set
Range(seq) == {seq[i] : i \in 1..Len(seq)}

\* [f(x) for x in seq], f given as a function on the elements of seq
MapSeq(seq, f) == [i \in 1..Len(seq) |-> f[seq[i]]]

\* "if r.country_code:", "if r.continent_code:", "if r.organization:":
\* a record is tallied under its key only if the key is truthy
tallied_any(k) == TRUE

tallied(k) == Truthy(k)

\* the indices of the records of seq that add a key to a dict filled by one
\* pass over seq: the first record of each tallied value of the field key
FirstIndices(seq, key) ==
    {i \in 1..Len(seq) :
       tallied(seq[i][key]) /\ \A j \in 1..(i - 1) : seq[j][key] # seq[i][key]}

\* the n-th smallest member of a set of numbers
NthOf(S, n) == CHOOSE i \in S : Cardinality({j \in S : j <= i}) = n

\* the keys of a dict filled by one pass over seq, in insertion order:
\* the tallied values of the field key, each at its first occurrence
KeysInOrder(seq, key) ==
    [n \in 1..Cardinality(FirstIndices(seq, key)) |->
       seq[NthOf(FirstIndices(seq, key), n)][key]]

\* the number of records of seq whose field key is k
CountKey(seq, key, k) == Cardinality({i \in 1..Len(seq) : seq[i][key] = k})

\* the tally as it is, in insertion order
insertion_order(items) == items

RECURSIVE SortByCountDesc(_)
\* sorted(items, key=lambda x: -x[1]): descending count, stable
SortByCountDesc(items) ==
    IF items = <<>> THEN <<>>
    ELSE LET i == CHOOSE i \in 1..Len(items) :
                    /\ \A j \in 1..Len(items) : items[j].count <= items[i].count
                    /\ \A j \in 1..(i - 1) : items[j].count < items[i].count
         IN <<items[i]>> \o
            SortByCountDesc(SubSeq(items, 1, i - 1) \o SubSeq(items, i + 1, Len(items)))

RECURSIVE SortByCode(_)
\* sorted(d.items()) for a dict with str keys: ascending key
SortByCode(items) ==
    IF items = <<>> THEN <<>>
    ELSE LET i == CHOOSE i \in 1..Len(items) :
                    \A j \in 1..Len(items) : Rank(items[i].code.s) <= Rank(items[j].code.s)
         IN <<items[i]>> \o
            SortByCode(SubSeq(items, 1, i - 1) \o SubSeq(items, i + 1, Len(items)))

Take(seq, n) == SubSeq(seq, 1, Min(n, Len(seq)))

\* the slice [:20] of the organization ranking
TopOrganizations == 20

\* the slice [:10] of top_countries in resolvers.json
TopCountries == 10

(***************************************************************************)
(* FileGenerator._calculate_stats                                          *)
(***************************************************************************)
\* the Resolver fields the tallies and the groupings are keyed by
KeyCountry == "country_code"

KeyContinent == "continent_code"

KeyOrganization == "organization"

IsV4(r) == PyEq(r.version, PyInt(4))

IsV6(r) == PyEq(r.version, PyInt(6))

\* the index of the first record of seq whose field key is k
FirstWith(seq, key, k) ==
    CHOOSE j \in 1..Len(seq) :
        seq[j][key] = k /\ \A l \in 1..(j - 1) : seq[l][key] # k

\* the index of the last record of seq whose field key is k
LastWith(seq, key, k) ==
    CHOOSE j \in 1..Len(seq) :
        seq[j][key] = k /\ \A l \in (j + 1)..Len(seq) : seq[l][key] # k

\* lines 280-282: one entry of the continents dict.  The name is overwritten
\* by every record of the continent, so the last one's stays; the count is
\* the number of records with this code
continent_entry(resolvers, code) ==
    [code |-> code,
     name |-> resolvers[LastWith(resolvers, KeyContinent, code)].continent,
     count |-> CountKey(resolvers, KeyContinent, code)]

\* the continents dict, in insertion order
continents_of(resolvers) ==
    MapSeq(KeysInOrder(resolvers, KeyContinent),
           [code \in Range(KeysInOrder(resolvers, KeyContinent)) |->
              continent_entry(resolvers, code)])

\* lines 278-279 and 289-292: one entry of top_countries; the name is the
\* country of the first record with that code
country_entry(resolvers, code) ==
    [code |-> code,
     name |-> resolvers[FirstWith(resolvers, KeyCountry, code)].country,
     count |-> CountKey(resolvers, KeyCountry, code)]

\* the countries dict, in insertion order
countries_of(resolvers) ==
    MapSeq(KeysInOrder(resolvers, KeyCountry),
           [code \in Range(KeysInOrder(resolvers, KeyCountry)) |->
              country_entry(resolvers, code)])

\* lines 283-284: the organizations dict, in insertion order
organizations_of(resolvers) ==
    MapSeq(KeysInOrder(resolvers, KeyOrganization),
           [name \in Range(KeysInOrder(resolvers, KeyOrganization)) |->
              [name |-> name, count |-> CountKey(resolvers, KeyOrganization, name)]])

IsTrusted(r) == Truthy(r.trusted)

IsDnssecAware(r) == Truthy(r.dnssec_aware)

IsDnssecValidating(r) == Truthy(r.dnssec_validating)

IsAdBlocking(r) == Truthy(r.ad_blocking)

IsMalwareBlocking(r) == Truthy(r.malware_blocking)

IsAdultBlocking(r) == Truthy(r.adult_blocking)

IsAnycast(r) == Truthy(r.anycast)

IsHighUptime(r) == PyGe(r.uptime_30d, PyFloat(high_uptime_threshold))

\* lines 298-326: the dict _calculate_stats returns, from its three tallies
stats_dict(resolvers, ts, countries, continents, organizations) ==
    [last_updated |-> ts,
     update_frequency |-> "twice daily",
     data_source |-> "https://dnsdirectory.com",
     totals |-> [servers |-> Len(resolvers),
                 servers_ipv4 |-> Len(SelectSeq(resolvers, IsV4)),
                 servers_ipv6 |-> Len(SelectSeq(resolvers, IsV6)),
                 countries |-> Len(countries),
                 continents |-> Len(continents),
                 organizations |-> Len(organizations)],
     by_feature |-> [online |-> Len(resolvers),
                     trusted |-> Len(SelectSeq(resolvers, IsTrusted)),
                     dnssec_aware |-> Len(SelectSeq(resolvers, IsDnssecAware)),
                     dnssec_validating |-> Len(SelectSeq(resolvers, IsDnssecValidating)),
                     ad_blocking |-> Len(SelectSeq(resolvers, IsAdBlocking)),
                     malware_blocking |-> Len(SelectSeq(resolvers, IsMalwareBlocking)),
                     adult_blocking |-> Len(SelectSeq(resolvers, IsAdultBlocking)),
                     anycast |-> Len(SelectSeq(resolvers, IsAnycast)),
                     high_uptime_30d |-> Len(SelectSeq(resolvers, IsHighUptime))],
     by_continent |-> SortByCode(continents),
     by_country |-> SortByCountDesc(countries),
     top_organizations |-> Take(SortByCountDesc(organizations), TopOrganizations)]

\* FileGenerator._calculate_stats(resolvers, config), with self.timestamp
calculate_stats(resolvers, ts) ==
    stats_dict(resolvers, ts, countries_of(resolvers), continents_of(resolvers),
               organizations_of(resolvers))

(***************************************************************************)
(* The renderer.  A write is [path, raised, content]: the file one call of *)
(* _write_file would write, or the exception raised before it is reached.  *)
(* Texts built by f-strings are kept as the tuple of their parts.          *)
(***************************************************************************)
NoUsage == <<>>

\* _generate_txt_header
generate_txt_header(title, count, usage_example, ts) ==
    [title |-> title, source |-> "https://dnsdirectory.com", updated |-> ts,
     total |-> count, usage |-> usage_example]

\* lines 349-351: the file written for the list ips
txt_file(path, title, ips, usage_example, ts) ==
    [path |-> path, raised |-> "",
     content |-> [header |-> generate_txt_header(title, Len(ips), usage_example, ts),
                  lines |-> ips]]

\* line 348: ips = sorted(set(r.ip for r in resolvers))
sorted_ips_no_dedup(resolvers) == [i \in 1..Len(resolvers) |-> resolvers[i].ip.s]

sorted_ips(resolvers) == SortedStrs({resolvers[i].ip.s : i \in 1..Len(resolvers)})

\* _write_txt_file: sorted() or "\n".join(ips) raises TypeError as soon as
\* one selected ip is not a str
write_txt_file(path, title, resolvers, usage_example, ts) ==
    IF \E i \in 1..Len(resolvers) : resolvers[i].ip.t # "str"
    THEN [path |-> path, raised |-> "TypeError", content |-> <<>>]
    ELSE txt_file(path, title, sorted_ips(resolvers), usage_example, ts)

\* _write_json_file
write_json_file(path, data) == [path |-> path, raised |-> "", content |-> data]

\* lines 360-424: the ten global lists, from the IPv4 and the IPv6 records
global_txt_files(ipv4, ipv6, ts) ==
    << write_txt_file(<<"resolvers/global/all.txt">>,
                      <<"Public DNS Servers - All IPv4">>, ipv4,
                      <<"massdns -r all.txt -t A domains.txt">>, ts),
       write_txt_file(<<"resolvers/global/all-ipv6.txt">>,
                      <<"Public DNS Servers - All IPv6">>, ipv6, NoUsage, ts),
       write_txt_file(<<"resolvers/global/trusted.txt">>,
                      <<"Public DNS Servers - Trusted Providers (IPv4)">>,
                      SelectSeq(ipv4, IsTrusted),
                      <<"massdns -r trusted.txt -t A domains.txt">>, ts),
       write_txt_file(<<"resolvers/global/trusted-ipv6.txt">>,
                      <<"Public DNS Servers - Trusted Providers (IPv6)">>,
                      SelectSeq(ipv6, IsTrusted), NoUsage, ts),
       write_txt_file(<<"resolvers/global/dnssec.txt">>,
                      <<"Public DNS Servers - DNSSEC Validating (IPv4)">>,
                      SelectSeq(ipv4, IsDnssecValidating), NoUsage, ts),
       write_txt_file(<<"resolvers/global/dnssec-ipv6.txt">>,
                      <<"Public DNS Servers - DNSSEC Validating (IPv6)">>,
                      SelectSeq(ipv6, IsDnssecValidating), NoUsage, ts),
       write_txt_file(<<"resolvers/global/ad-blocking.txt">>,
                      <<"Public DNS Servers - Ad Blocking (IPv4)">>,
                      SelectSeq(ipv4, IsAdBlocking), NoUsage, ts),
       write_txt_file(<<"resolvers/global/malware-blocking.txt">>,
                      <<"Public DNS Servers - Malware Blocking (IPv4)">>,
                      SelectSeq(ipv4, IsMalwareBlocking), NoUsage, ts),
       write_txt_file(<<"resolvers/global/family-safe.txt">>,
                      <<"Public DNS Servers - Family Safe / Adult Blocking (IPv4)">>,
                      SelectSeq(ipv4, IsAdultBlocking), NoUsage, ts),
       write_txt_file(<<"resolvers/global/high-uptime.txt">>,
                      <<"Public DNS Servers - High Uptime >=", high_uptime_threshold, "% (IPv4)">>,
                      SelectSeq(ipv4, IsHighUptime), NoUsage, ts) >>

\* _generate_global_txt_files
generate_global_txt_files(resolvers, ts) ==
    global_txt_files(SelectSeq(resolvers, IsV4), SelectSeq(resolvers, IsV6), ts)

\* the keys of a defaultdict(list) filled from the selected records by
\* their field key, as sorted(d.items()) walks them (the keys are str)
SortedCodes(selected, key) == SortedStrs({r[key].s : r \in Range(selected)})

HasCountryV4(r) == IsV4(r) /\ Truthy(r.country_code)

HasCountryV6(r) == IsV6(r) /\ Truthy(r.country_code)

HasCountry(r) == Truthy(r.country_code)

HasContinent(r) == Truthy(r.continent_code)

\* lines 436-442: the list of one country
country_txt_file(code, country_resolvers, ts) ==
    write_txt_file(<<"resolvers/by-country/", code, ".txt">>,
                   <<"Public DNS Servers - ", country_resolvers[1].country, " (", code, ")">>,
                   country_resolvers,
                   <<"massdns -r ", code, ".txt -t A domains.txt">>, ts)

\* _generate_country_txt_files
generate_country_txt_files(resolvers, ts) ==
    MapSeq(SortedCodes(SelectSeq(resolvers, HasCountryV4), KeyCountry),
           [code \in Range(SortedCodes(SelectSeq(resolvers, HasCountryV4), KeyCountry)) |-> country_txt_file(code,
               SelectSeq(resolvers, LAMBDA r : HasCountryV4(r) /\ r.country_code = PyStr(code)),
               ts)])

\* lines 454-459: the IPv6 list of one country
country_ipv6_txt_file(code, country_resolvers, ts) ==
    write_txt_file(<<"resolvers/by-country-ipv6/", code, ".txt">>,
                   <<"Public DNS Servers - ", country_resolvers[1].country,
                     " (", code, ") - IPv6">>,
                   country_resolvers, NoUsage, ts)

\* _generate_country_ipv6_txt_files
generate_country_ipv6_txt_files(resolvers, ts) ==
    MapSeq(SortedCodes(SelectSeq(resolvers, HasCountryV6), KeyCountry),
           [code \in Range(SortedCodes(SelectSeq(resolvers, HasCountryV6), KeyCountry)) |-> country_ipv6_txt_file(code,
               SelectSeq(resolvers, LAMBDA r : HasCountryV6(r) /\ r.country_code = PyStr(code)),
               ts)])

\* lines 471-477: the list of one continent
continent_txt_file(code, continent_resolvers, ts) ==
    write_txt_file(<<"resolvers/by-continent/", code, ".txt">>,
                   <<"Public DNS Servers - ", continent_resolvers[1].continent,
                     " (", code, ")">>,
                   continent_resolvers,
                   <<"massdns -r ", code, ".txt -t A domains.txt">>, ts)

\* _generate_continent_txt_files
generate_continent_txt_files(resolvers, ts) ==
    MapSeq(SortedCodes(SelectSeq(resolvers, HasContinent), KeyContinent),
           [code \in Range(SortedCodes(SelectSeq(resolvers, HasContinent), KeyContinent)) |-> continent_txt_file(code,
               SelectSeq(resolvers, LAMBDA r : r.continent_code = PyStr(code)), ts)])

\* Resolver.to_json_dict
to_json_dict(r) ==
    [ip |-> r.ip, version |-> r.version, country_code |-> r.country_code,
     country |-> r.country, continent_code |-> r.continent_code,
     continent |-> r.continent, organization |-> r.organization,
     domain |-> r.domain, trusted |-> r.trusted, anycast |-> r.anycast,
     dnssec |-> [aware |-> r.dnssec_aware, validating |-> r.dnssec_validating],
     blocking |-> [ads |-> r.ad_blocking, malware |-> r.malware_blocking,
                   adult |-> r.adult_blocking],
     uptime |-> [h24 |-> r.uptime_24h, d30 |-> r.uptime_30d,
                 d90 |-> r.uptime_90d, y1 |-> r.uptime_1y]]

\* Resolver.to_csv_row: the 19 attributes, flat
to_csv_row(r) ==
    [ip |-> r.ip, version |-> r.version, country_code |-> r.country_code,
     country |-> r.country, continent_code |-> r.continent_code,
     continent |-> r.continent, organization |-> r.organization,
     domain |-> r.domain, trusted |-> r.trusted, anycast |-> r.anycast,
     dnssec_aware |-> r.dnssec_aware, dnssec_validating |-> r.dnssec_validating,
     ad_blocking |-> r.ad_blocking, malware_blocking |-> r.malware_blocking,
     adult_blocking |-> r.adult_blocking,
     uptime_24h |-> r.uptime_24h, uptime_30d |-> r.uptime_30d,
     uptime_90d |-> r.uptime_90d, uptime_1y |-> r.uptime_1y]

\* [r.to_json_dict() for r in resolvers]
JsonList(resolvers) == [i \in 1..Len(resolvers) |-> to_json_dict(resolvers[i])]

\* _generate_main_json
generate_main_json(resolvers, st, ts) ==
    << write_json_file(<<"data/resolvers.json">>,
         [metadata |-> [source |-> "https://dnsdirectory.com",
                        generated_at |-> ts,
                        total_servers |-> Len(resolvers),
                        total_countries |-> st.totals.countries,
                        total_continents |-> st.totals.continents],
          statistics |-> [by_ip_version |-> [ipv4 |-> st.totals.servers_ipv4,
                                             ipv6 |-> st.totals.servers_ipv6],
                          by_feature |-> [trusted |-> st.by_feature.trusted,
                                          dnssec_validating |-> st.by_feature.dnssec_validating,
                                          ad_blocking |-> st.by_feature.ad_blocking,
                                          malware_blocking |-> st.by_feature.malware_blocking,
                                          adult_blocking |-> st.by_feature.adult_blocking],
                          top_countries |-> Take(st.by_country, TopCountries)],
          resolvers |-> JsonList(resolvers)]) >>

\* _generate_minimal_json
generate_minimal_json(resolvers, ts) ==
    << write_json_file(<<"data/resolvers-minimal.json">>,
         [generated_at |-> ts,
          resolvers |-> [i \in 1..Len(resolvers) |->
                          [ip |-> resolvers[i].ip, country |-> resolvers[i].country_code,
                           trusted |-> resolvers[i].trusted]]]) >>

\* lines 541-553: the document of one country
country_json_file(code, country_resolvers, ts) ==
    write_json_file(<<"data/by-country/", code, ".json">>,
        [metadata |-> [country_code |-> code,
                       country_name |-> country_resolvers[1].country,
                       continent_code |-> country_resolvers[1].continent_code,
                       continent_name |-> country_resolvers[1].continent,
                       generated_at |-> ts,
                       total_servers |-> Len(country_resolvers)],
         resolvers |-> JsonList(country_resolvers)])

\* _generate_country_json_files
generate_country_json_files(resolvers, ts) ==
    MapSeq(SortedCodes(SelectSeq(resolvers, HasCountry), KeyCountry),
           [code \in Range(SortedCodes(SelectSeq(resolvers, HasCountry), KeyCountry)) |-> country_json_file(code,
               SelectSeq(resolvers, LAMBDA r : r.country_code = PyStr(code)), ts)])

\* lines 565-575: the document of one continent
continent_json_file(code, continent_resolvers, ts) ==
    write_json_file(<<"data/by-continent/", code, ".json">>,
        [metadata |-> [continent_code |-> code,
                       continent_name |-> continent_resolvers[1].continent,
                       generated_at |-> ts,
                       total_servers |-> Len(continent_resolvers)],
         resolvers |-> JsonList(continent_resolvers)])

\* _generate_continent_json_files
generate_continent_json_files(resolvers, ts) ==
    MapSeq(SortedCodes(SelectSeq(resolvers, HasContinent), KeyContinent),
           [code \in Range(SortedCodes(SelectSeq(resolvers, HasContinent), KeyContinent)) |-> continent_json_file(code,
               SelectSeq(resolvers, LAMBDA r : r.continent_code = PyStr(code)), ts)])

\* _generate_stats_json
generate_stats_json(st) == << write_json_file(<<"data/stats.json">>, st) >>

\* _generate_csv: the header row and one row per record
generate_csv(resolvers) ==
    << [path |-> <<"data/resolvers.csv">>, raised |-> "",
        content |-> [rows |-> [i \in 1..Len(resolvers) |-> to_csv_row(resolvers[i])]]] >>

\* a file that is already on disk is left as it is
apply_writes_keep_existing(ws, n, fs) ==
    [p \in DOMAIN fs \cup {ws[i].path : i \in 1..n} |->
       IF p \in DOMAIN fs
       THEN fs[p]
       ELSE ws[CHOOSE i \in 1..n :
                 ws[i].path = p /\ \A j \in (i + 1)..n : ws[j].path # p].content]

\* _write_file, for the writes ws[1..n] in turn: the files on disk
\* afterwards, over the files fs
apply_writes(ws, n, fs) ==
    [p \in DOMAIN fs \cup {ws[i].path : i \in 1..n} |->
       IF \E i \in 1..n : ws[i].path = p
       THEN ws[CHOOSE i \in 1..n :
                 ws[i].path = p /\ \A j \in (i + 1)..n : ws[j].path # p].content
       ELSE fs[p]]

NoStats == [last_updated |-> ""]

NoFiles == <<>>

\* the index of the first write of ws that raises, 0 if none does
FirstRaise(ws) ==
    IF \A i \in 1..Len(ws) : ws[i].raised = "" THEN 0
    ELSE CHOOSE i \in 1..Len(ws) :
             ws[i].raised # "" /\ \A j \in 1..(i - 1) : ws[j].raised = ""

\* the outcome of the calls of generate_all, given what each would write:
\* all files and the stats, or the files before the exception and the
\* exception
run_writes(ws, k, st, fs) ==
    IF k = 0
    THEN [raised |-> "", files |-> apply_writes(ws, Len(ws), fs), stats |-> st]
    ELSE [raised |-> ws[k].raised, files |-> apply_writes(ws, k - 1, fs),
          stats |-> NoStats]

\* lines 246-260: the generators in the order generate_all calls them
all_writes(resolvers, st, ts) ==
    generate_global_txt_files(resolvers, ts)
    \o generate_country_txt_files(resolvers, ts)
    \o generate_country_ipv6_txt_files(resolvers, ts)
    \o generate_continent_txt_files(resolvers, ts)
    \o generate_main_json(resolvers, st, ts)
    \o generate_minimal_json(resolvers, ts)
    \o generate_country_json_files(resolvers, ts)
    \o generate_continent_json_files(resolvers, ts)
    \o generate_stats_json(st)
    \o generate_csv(resolvers)

writes_outcome(ws, st, fs) == run_writes(ws, FirstRaise(ws), st, fs)

\* FileGenerator.generate_all(resolvers, config), with self.timestamp and
\* the files already on disk
generate_all_with(resolvers, st, fs, ts) ==
    writes_outcome(all_writes(resolvers, st, ts), st, fs)

generate_all(resolvers, fs, ts) ==
    generate_all_with(resolvers, calculate_stats(resolvers, ts), fs, ts)

(***************************************************************************)
(* main, fetch_all_servers and _fetch_page as a state machine.             *)
(***************************************************************************)
\* the values datetime.now() may give FileGenerator.__init__
Timestamps == {"2026-01-01T00:00:00Z", "2026-01-01T12:00:00Z"}

IdleRaw == << >>

IdleNorm == [raised |-> "idle"]

IdleColl == << >>

IdleRuns == << >>

IdleAgg == NoStats

InitMain ==
    /\ config \in Configs
    /\ remote \in SeqsUpTo(FetchRecords, MaxTotal)
    /\ pc = "start"
    /\ page = 0
    /\ attempt = 0
    /\ all_servers = <<>>
    /\ requested = <<>>
    /\ log = <<>>
    /\ rate_sleeps = 0
    /\ files = NoFiles
    /\ stats = NoStats
    /\ exit_code = -1
    /\ exit_path = ""

Init ==
    /\ InitMain
    /\ raw = IdleRaw
    /\ norm = IdleNorm
    /\ coll = IdleColl
    /\ agg = IdleAgg
    /\ runs = IdleRuns

\* sys.exit(code), reached through the named branch of main
Exit(code, path) ==
    /\ pc' = "exit"
    /\ exit_code' = code
    /\ exit_path' = path

\* main, lines 637-644: Config.from_env() raises ValueError when the
\* environment has no DNS_API_ENDPOINT; otherwise fetch_all_servers starts
\* and calls _fetch_page(1)
main_start ==
    /\ pc = "start"
    /\ \E env_endpoint \in BOOLEAN :
         IF ~env_endpoint
         THEN /\ Exit(1, "config")
              /\ UNCHANGED <<page, attempt, all_servers, requested>>
         ELSE /\ pc' = "get"
              /\ page' = 1
              /\ attempt' = 0
              /\ all_servers' = <<>>
              /\ requested' = <<1>>
              /\ UNCHANGED <<exit_code, exit_path>>
    /\ UNCHANGED <<config, remote, log, rate_sleeps, files, stats, harnessVars>>

\* _fetch_page, lines 213-227: the GET of this attempt raises
\* requests.RequestException.  Another attempt follows after retry_delay,
\* or the exception leaves fetch_all_servers and main exits at line 670
get_fail ==
    /\ pc = "get"
    /\ IF retry_again(attempt)
       THEN /\ log' = Recent(log) \o failed_attempt(page)
            /\ attempt' = attempt + 1
            /\ UNCHANGED <<pc, all_servers, exit_code, exit_path>>
       ELSE /\ log' = Append(Recent(log), GetEvent(page, FALSE))
            /\ all_servers' = <<>>
            /\ Exit(1, RequestExceptionHandler)
            /\ UNCHANGED attempt
    /\ UNCHANGED <<config, remote, page, requested, rate_sleeps, files, stats, harnessVars>>

\* fetch_all_servers, lines 187-199, after _fetch_page returned servers and
\* the loop over them ended with res
page_done(servers, res) ==
    IF res.raised # ""
    THEN /\ log' = Append(Recent(log), GetEvent(page, TRUE))
         /\ all_servers' = <<>>
         /\ Exit(1, "unexpected")
         /\ UNCHANGED <<page, attempt, requested, rate_sleeps>>
    ELSE /\ log' = Recent(log) \o page_received(page, rate_limit_sleeps(last_page(servers)))
         /\ rate_sleeps' = rate_sleeps + rate_limit_sleeps(last_page(servers))
         /\ all_servers' = res.acc
         /\ IF last_page(servers)
            THEN /\ pc' = "returned"
                 /\ UNCHANGED <<page, attempt, requested, exit_code, exit_path>>
            ELSE /\ page' = page + 1
                 /\ attempt' = 0
                 /\ requested' = Append(requested, page + 1)
                 /\ UNCHANGED <<pc, exit_code, exit_path>>

\* _fetch_page returns the page; fetch_all_servers appends its online
\* records and either returns (short page) or, after rate_limit_delay,
\* calls _fetch_page for the next page.  An exception of from_api_response
\* leaves the loop and main exits at line 673
get_ok ==
    /\ pc = "get"
    /\ page_done(ApiPage(page), append_online(ApiPage(page), 1, all_servers))
    /\ UNCHANGED <<config, remote, files, stats, harnessVars>>

\* "if not resolvers"
no_resolvers_never(resolvers) == FALSE

no_resolvers(resolvers) == Len(resolvers) = 0

\* main, lines 646-648: an empty result exits with code 1
main_check_resolvers ==
    /\ pc = "returned"
    /\ IF no_resolvers(all_servers)
       THEN Exit(1, "empty")
       ELSE /\ pc' = "generate"
            /\ UNCHANGED <<exit_code, exit_path>>
    /\ UNCHANGED <<config, remote, page, attempt, all_servers, requested, log,
                   rate_sleeps, files, stats, harnessVars>>

\* main after generate_all ended with res: exit code 0 after the summary,
\* or code 1 from the handler at line 671
finish_generate(res) ==
    /\ files' = res.files
    /\ stats' = res.stats
    /\ IF res.raised # ""
       THEN Exit(1, "unexpected")
       ELSE Exit(0, "success")

\* main, lines 650-663: FileGenerator(base_path).generate_all(resolvers,
\* config); an exception inside it is caught at line 671
main_generate ==
    /\ pc = "generate"
    /\ \E ts \in Timestamps : finish_generate(generate_all(all_servers, files, ts))
    /\ UNCHANGED <<config, remote, page, attempt, all_servers, requested, log,
                   rate_sleeps, harnessVars>>

Next ==
    \/ main_start
    \/ get_fail
    \/ get_ok
    \/ main_check_resolvers
    \/ main_generate

Spec == Init /\ [][Next]_vars

(***************************************************************************)
(* The normalizer on its own: from_api_response applied to one raw record  *)
(* whose fields are missing, null, well-formed or of another type.         *)
(***************************************************************************)
\* marks a key the raw record does not have (not a Python value)
Absent == [t |-> "absent", s |-> "", n |-> 0]

RawKey ==
    [ip |-> "dns_server_ip_address",
     version |-> "dns_server_ip_address_version",
     online |-> "dns_server_is_online",
     country_code |-> "country_id",
     uptime_24h |-> "dns_server_uptime_24h",
     uptime_30d |-> "dns_server_uptime_30d"]

RawOptions ==
    [ip : {Absent, PyNone, PyStr(""), PyStr("1.1.1.1")},
     version : {Absent, PyNone, PyInt(4), PyInt(6), PyInt(5), PyStr("4")},
     online : {Absent, PyBool(TRUE)},
     country_code : {Absent, PyStr("US")},
     uptime_24h : {Absent, PyNone, PyFloat(99), PyInt(100), PyStr("100"), PyStr("n/a"),
                   PyStr("nan"), PyBigInt, PyList},
     uptime_30d : {Absent, PyStr("50"), PyBigInt}]

\* the dict with the keys whose option is not Absent
MakeRaw(o) ==
    [k \in {RawKey[f] : f \in {g \in DOMAIN o : o[g] # Absent}} |->
       o[CHOOSE f \in DOMAIN o : RawKey[f] = k]]

InitIdleMain ==
    /\ config = [per_page |-> 1, max_retries |-> 1]
    /\ remote = <<>>
    /\ pc = "idle"
    /\ page = 0
    /\ attempt = 0
    /\ all_servers = <<>>
    /\ requested = <<>>
    /\ log = <<>>
    /\ rate_sleeps = 0
    /\ files = NoFiles
    /\ stats = NoStats
    /\ exit_code = -1
    /\ exit_path = ""

InitNormalize ==
    /\ InitIdleMain
    /\ raw \in {MakeRaw(o) : o \in RawOptions}
    /\ norm = IdleNorm
    /\ coll = IdleColl
    /\ agg = IdleAgg
    /\ runs = IdleRuns

\* one call of Resolver.from_api_response
normalize ==
    /\ norm = IdleNorm
    /\ raw # IdleRaw
    /\ norm' = from_api_response(raw)
    /\ UNCHANGED <<mainVars, raw, coll, agg, runs>>

NextNormalize == normalize

SpecNormalize == InitNormalize /\ [][NextNormalize]_vars

(***************************************************************************)
(* The aggregator on its own: _calculate_stats applied to one Resolver     *)
(* collection.                                                             *)
(***************************************************************************)
MaxColl == 3

\* empty country and continent codes
RecNoCodes ==
    [dns_server_is_online |-> PyBool(TRUE),
     dns_server_ip_address |-> PyStr("9.9.9.9"),
     country_id |-> PyStr(""), continent_id |-> PyStr(""),
     dns_server_organization |-> PyStr("Quad9")]

\* a country but a null continent
RecNullContinent ==
    [dns_server_is_online |-> PyBool(TRUE),
     dns_server_ip_address |-> PyStr("8.8.8.8"),
     country_id |-> PyStr("US"), country_name |-> PyStr("USA"),
     continent_id |-> PyNone]

\* a second country of a continent, under another spelling of its name
RecFrance ==
    [dns_server_is_online |-> PyBool(TRUE),
     dns_server_ip_address |-> PyStr("8.8.4.4"),
     country_id |-> PyStr("FR"), country_name |-> PyStr("France"),
     continent_id |-> PyStr("EU"), continent_name |-> PyStr("Europa"),
     dns_server_organization |-> PyStr("Quad9")]

StatsResolvers ==
    {from_api_response(x).r :
       x \in {RecOnlineV4, RecOnlineV6, RecNoIp, RecNoCodes, RecNullContinent, RecFrance}}

\* the most organizations a collection of the second kind has: a few more
\* than the organization ranking keeps
MaxOrgs == 22

OrgNames == <<"org01", "org02", "org03", "org04", "org05", "org06", "org07", "org08", "org09", "org10", "org11", "org12",
              "org13", "org14", "org15", "org16", "org17", "org18", "org19", "org20", "org21", "org22", "org23", "org24">>

OrgCountries == <<"US", "DE", "FR">>

\* an online record of the k-th organization
RecOfOrg(k) ==
    [dns_server_is_online |-> PyBool(TRUE),
     dns_server_ip_address |-> PyStr("1.1.1.1"),
     dns_server_ip_address_version |-> PyInt(4),
     country_id |-> PyStr(OrgCountries[(k % 3) + 1]),
     country_name |-> PyStr(OrgCountries[(k % 3) + 1]),
     dns_server_organization |-> PyStr(OrgNames[k])]

\* one record of each of the first n organizations, then one more of the
\* organizations h1 and h2
ManyOrgs(n, h1, h2) ==
    [i \in 1..(n + 2) |->
       from_api_response(RecOfOrg(IF i <= n THEN i ELSE IF i = n + 1 THEN h1 ELSE h2)).r]

ManyOrgsColls ==
    {ManyOrgs(n, h[1], h[2]) : n \in (MaxOrgs - 3)..MaxOrgs, h \in (1..MaxOrgs) \X (1..MaxOrgs)}

InitStats ==
    /\ InitIdleMain
    /\ raw = IdleRaw
    /\ norm = IdleNorm
    /\ coll \in SeqsUpTo(StatsResolvers, MaxColl) \cup ManyOrgsColls
    /\ agg = IdleAgg
    /\ runs = IdleRuns

\* one call of FileGenerator._calculate_stats
aggregate ==
    /\ agg = IdleAgg
    /\ pc = "idle"
    /\ raw = IdleRaw
    /\ \E ts \in Timestamps : agg' = calculate_stats(coll, ts)
    /\ UNCHANGED <<mainVars, raw, norm, coll, runs>>

NextStats == aggregate

SpecStats == InitStats /\ [][NextStats]_vars

(***************************************************************************)
(* The aggregator and the renderer on their own: generate_all called, once *)
(* and then again, on one Resolver collection, over the files an earlier   *)
(* run may have left on disk.                                              *)
(***************************************************************************)
MaxRuns == 2

\* among them two records that share an IP address and differ in the rest,
\* and one whose ip is None
RenderResolvers ==
    {from_api_response(x).r :
       x \in {RecOnlineV4, RecOnlineV6, RecTextFlag, RecNullContinent, RecNoIp}}

\* the disk after an earlier run of generate_all on other data
StaleFiles ==
    generate_all(<<from_api_response(RecFrance).r>>, NoFiles, "2025-12-31T12:00:00Z").files

InitRender ==
    /\ config = [per_page |-> 1, max_retries |-> 1]
    /\ remote = <<>>
    /\ pc = "render"
    /\ page = 0
    /\ attempt = 0
    /\ all_servers = <<>>
    /\ requested = <<>>
    /\ log = <<>>
    /\ rate_sleeps = 0
    /\ files \in {NoFiles, StaleFiles}
    /\ stats = NoStats
    /\ exit_code = -1
    /\ exit_path = ""
    /\ raw = IdleRaw
    /\ norm = IdleNorm
    /\ coll \in SeqsUpTo(RenderResolvers, MaxColl)
    /\ agg = IdleAgg
    /\ runs = IdleRuns

\* what one call of generate_all leaves: the files on disk, the stats it
\* returned, and the record of the call
render_done(res, ts) ==
    /\ files' = res.files
    /\ stats' = res.stats
    /\ runs' = Append(runs, [ts |-> ts, raised |-> res.raised,
                             files |-> res.files, stats |-> res.stats])

\* FileGenerator(base_path).generate_all(coll, config)
render ==
    /\ pc = "render"
    /\ Len(runs) < MaxRuns
    /\ \E ts \in Timestamps : render_done(generate_all(coll, files, ts), ts)
    /\ UNCHANGED <<config, remote, pc, page, attempt, all_servers, requested, log,
                   rate_sleeps, exit_code, exit_path, raw, norm, coll, agg>>

NextRender == render

SpecRender == InitRender /\ [][NextRender]_vars

(***************************************************************************)
(* Properties.                                                             *)
(***************************************************************************)
\* the number of GETs of page p in the history, and of the failed ones
GetsOn(p) == Cardinality({i \in 1..Len(log) : log[i].e = "get" /\ log[i].page = p})

FailedOn(p) == Cardinality({i \in 1..Len(log) : log[i] = GetEvent(p, FALSE)})

Succeeded(p) == \E i \in 1..Len(log) : log[i] = GetEvent(p, TRUE)

RECURSIVE RetryDelayOn(_, _)
\* the time slept in retry delays for page p over the first n events
RetryDelayOn(p, n) ==
    IF n = 0 THEN 0
    ELSE RetryDelayOn(p, n - 1)
         + (IF log[n].e = "retry_sleep" /\ log[n].page = p THEN log[n].d ELSE 0)

\* C1: no page gets more than max_retries GETs; the run ends through the
\* transport-error exit exactly when max_retries GETs of the page in
\* progress have failed; and after that exit no page is requested again.
C1_State ==
    /\ \A p \in 1..page : GetsOn(p) <= config.max_retries
    /\ (exit_path = "transport") <=> (page >= 1 /\ FailedOn(page) = config.max_retries)
    /\ exit_path = "transport" => pc = "exit" /\ exit_code = 1

C1_RetryBudget ==
    /\ []C1_State
    /\ [][exit_path = "transport" => UNCHANGED <<log, requested, page, attempt>>]_vars

C1_Witness ==
    /\ exit_path = "transport"
    /\ page = 2
    /\ config.max_retries = 3
    /\ GetsOn(2) = 3

\* C2: a page that is received after k failed attempts was received within
\* the budget (k + 1 <= max_retries), without the transport-error exit, and
\* exactly k * retry_delay was slept for it: every retry delay directly
\* follows a failed GET of the page and is followed by another GET of it,
\* and the exhausted last attempt is followed by none.
C2_RetryDelays ==
    /\ \A p \in 1..page :
         Succeeded(p) =>
           /\ FailedOn(p) + 1 <= config.max_retries
           /\ RetryDelayOn(p, Len(log)) = FailedOn(p) * retry_delay
           /\ ~(exit_path = "transport" /\ p = page)
    /\ \A i \in 1..Len(log) :
         log[i].e = "retry_sleep" =>
           /\ i > 1
           /\ log[i - 1] = GetEvent(log[i].page, FALSE)
           /\ log[i].d = retry_delay
           /\ IF i = Len(log) THEN pc = "get" /\ log[i].page = page
              ELSE log[i + 1].e = "get" /\ log[i + 1].page = log[i].page
    /\ exit_path = "transport" =>
         /\ log[Len(log)] = GetEvent(page, FALSE)
         /\ RetryDelayOn(page, Len(log)) = (config.max_retries - 1) * retry_delay

C2_Witness ==
    /\ config.max_retries = 3
    /\ page >= 1
    /\ Succeeded(page)
    /\ FailedOn(page) = 2
    /\ RetryDelayOn(page, Len(log)) = 2 * retry_delay
    /\ exit_path # "transport"

\* the step in which the page in progress is received
Received == pc = "get" /\ \E i \in 1..Len(log') : log'[i] = GetEvent(page, TRUE)

C3_State ==
    /\ \A i \in 1..Len(requested) : requested[i] = i
    /\ page = Len(requested)
    /\ \A p \in 1..(page - 1) : Len(ApiPage(p)) >= config.per_page
    /\ pc = "returned" => Len(ApiPage(page)) < config.per_page
    /\ (pc = "returned" /\ Len(remote) > 0 /\ Len(remote) % config.per_page = 0) =>
         /\ page = (Len(remote) \div config.per_page) + 1
         /\ ApiPage(page) = <<>>

C3_Step ==
    Received =>
      /\ Len(ApiPage(page)) < config.per_page =>
           pc' \in {"returned", "exit"} /\ requested' = requested
      /\ Len(ApiPage(page)) >= config.per_page =>
           \/ pc' = "exit" /\ exit_path' = "unexpected"
           \/ pc' = "get" /\ requested' = Append(requested, page + 1)
      /\ ApiPage(page) = <<>> => all_servers' = all_servers

FlagIsOn(x) == Truthy(Get(x, "dns_server_is_online", PyNone))

\* the records of rs whose flag is on, in the order of rs
OnlineOf(rs) == SelectSeq(rs, FlagIsOn)

\* the Resolvers of the records of rs, in the order of rs
NormalizedOf(rs) == [i \in 1..Len(rs) |-> from_api_response(rs[i]).r]

\* the records of the pages received so far
FetchedSoFar ==
    SubSeq(remote, 1,
           Min(Len(remote), (IF pc = "get" THEN page - 1 ELSE page) * config.per_page))

C5_ExhaustedAborts ==
    /\ (page >= 1 /\ FailedOn(page) = config.max_retries) =>
         /\ pc = "exit"
         /\ exit_code > 0
         /\ exit_path = "transport"
         /\ all_servers = <<>>
         /\ files = NoFiles
         /\ stats = NoStats
    /\ exit_path \notin {"success", "unexpected"} => files = NoFiles

C5_Witness ==
    /\ exit_path = "transport"
    /\ page = 2
    /\ FlagIsOn(remote[1])
    /\ files = NoFiles
    /\ exit_code = 1

C6_State ==
    /\ exit_path = "empty" =>
         /\ pc = "exit"
         /\ exit_code > 0
         /\ all_servers = <<>>
         /\ files = NoFiles
         /\ stats = NoStats
    /\ pc = "generate" => all_servers # <<>>
    /\ files # NoFiles =>
         /\ all_servers # <<>>
         /\ exit_path \in {"success", "unexpected"}
         /\ Succeeded(page)
         /\ Len(ApiPage(page)) < config.per_page

C6_Step ==
    (pc = "returned" /\ all_servers = <<>>) =>
      /\ pc' = "exit"
      /\ exit_path' = "empty"
      /\ exit_code' = 1
      /\ files' = NoFiles

\* C6: a fetch that returns no resolver ends the run with a non-zero exit
\* code before generate_all is called, so nothing is written; and files are
\* written only in runs whose fetch returned at least one resolver.
C6_EmptyResult == []C6_State /\ [][C6_Step]_vars

C6_Witness ==
    /\ exit_path = "empty"
    /\ exit_code = 1
    /\ Len(remote) = 3
    /\ config.per_page = 2
    /\ requested = <<1, 2>>
    /\ files = NoFiles

\* C7: rate_limit_delay is slept once after each page but the last: the
\* sleeps number page - 1, each directly follows the successful GET of a
\* page and precedes the first GET of the next, none comes before page 1 or
\* after the page the fetch returns at.
C7_RateLimit ==
    /\ page >= 1 => rate_sleeps = page - 1
    /\ page = 0 => rate_sleeps = 0
    /\ \A i \in 1..Len(log) :
         log[i].e = "rate_sleep" =>
           /\ i > 1
           /\ log[i - 1] = GetEvent(log[i].page, TRUE)
           /\ log[i].d = rate_limit_delay
           /\ log[i].page < page
           /\ i < Len(log) => log[i + 1].e = "get" /\ log[i + 1].page = log[i].page + 1
           /\ \A j \in 1..Len(log) :
                (log[j].e = "rate_sleep" /\ log[j].page = log[i].page) => j = i
    /\ log # <<>> => log[1].e = "get"
    /\ \A i \in 2..Len(log) :
         (log[i].e = "get" /\ log[i - 1].e = "get") => log[i - 1] = GetEvent(log[i].page, FALSE)
    /\ pc = "returned" =>
         /\ log[Len(log)] = GetEvent(page, TRUE)
         /\ rate_sleeps = Len(requested) - 1

C7_Witness ==
    /\ pc = "returned"
    /\ Len(requested) = 3
    /\ rate_sleeps = 2

\* C8 as stated: every Resolver of the returned collection has a non-empty
\* ip and a version of 4 or 6.
C8_RetainedIdentity ==
    pc = "returned" =>
      \A i \in 1..Len(all_servers) :
        /\ all_servers[i].ip.t = "str"
        /\ all_servers[i].ip.s # ""
        /\ all_servers[i].version \in {PyInt(4), PyInt(6)}

UptimeFields ==
    {<<"uptime_24h", "dns_server_uptime_24h">>, <<"uptime_30d", "dns_server_uptime_30d">>,
     <<"uptime_90d", "dns_server_uptime_90d">>, <<"uptime_1y", "dns_server_uptime_1y">>}

\* C9 as stated: from_api_response never fails, version and the four
\* uptimes are numbers (never null), and an uptime that is absent, null or
\* not parseable as a number is 0.0.
C9_NormalizeTotal ==
    norm # IdleNorm =>
      /\ norm.raised = ""
      /\ norm.r.version.t \in {"int", "float"}
      /\ \A f \in UptimeFields :
           /\ norm.r[f[1]].t = "float"
           /\ (Get(raw, f[2], PyNone).t = "none"
               \/ PyFloatOf(Get(raw, f[2], PyNone)).raised # "")
                => norm.r[f[1]] = PyFloat(0)

RECURSIVE SumCounts(_)
SumCounts(entries) ==
    IF entries = <<>> THEN 0 ELSE Head(entries).count + SumCounts(Tail(entries))

NonEmptyCode(v) == v.t = "str" /\ v.s # ""

\* C10: the by_continent counts add up to the number of records with a
\* non-empty continent code, which is at most totals.servers; likewise for
\* by_country; and totals.servers counts every record, with a code or not.
C10_ContinentCounts ==
    agg # IdleAgg =>
      /\ SumCounts(agg.by_continent)
           = Cardinality({i \in 1..Len(coll) : NonEmptyCode(coll[i].continent_code)})
      /\ SumCounts(agg.by_continent) <= agg.totals.servers
      /\ SumCounts(agg.by_country)
           = Cardinality({i \in 1..Len(coll) : NonEmptyCode(coll[i].country_code)})
      /\ \A i \in 1..Len(agg.by_continent) : NonEmptyCode(agg.by_continent[i].code)
      /\ \A i \in 1..Len(agg.by_country) : NonEmptyCode(agg.by_country[i].code)
      /\ agg.totals.servers = Len(coll)

C10_Witness ==
    /\ agg # IdleAgg
    /\ Len(coll) = 3
    /\ SumCounts(agg.by_continent) = 1
    /\ SumCounts(agg.by_country) = 2
    /\ agg.totals.servers = 3

\* the lines of the plain-text list at path p, and the count in its header
TxtLines(p) == files[p].lines

TxtTotal(p) == files[p].header.total

\* the set of the IP addresses of the records rs
IpsOf(rs) == {rs[i].ip.s : i \in 1..Len(rs)}

\* the last call of generate_all returned without an exception
LastRunOk == runs # <<>> /\ runs[Len(runs)].raised = ""

InCountryV4(r, code) == HasCountryV4(r) /\ r.country_code = PyStr(code)

\* C11: every plain-text list on disk has its lines in strictly ascending
\* str order (so no IP twice) and a header count equal to the number of its
\* lines; after a run that completed, a list holds exactly the IPs of its
\* selected records (all IPv4, all IPv6, trusted IPv4, IPv4 of one
\* country), while resolvers.json and resolvers.csv hold one entry per
\* record of the collection, in its order, records that share an IP too.
C11_TxtDedupSorted ==
    /\ \A p \in DOMAIN files :
         "lines" \in DOMAIN files[p] =>
           /\ \A i, j \in 1..Len(TxtLines(p)) :
                i < j => Rank(TxtLines(p)[i]) < Rank(TxtLines(p)[j])
           /\ TxtTotal(p) = Len(TxtLines(p))
    /\ LastRunOk =>
         /\ Range(TxtLines(<<"resolvers/global/all.txt">>)) = IpsOf(SelectSeq(coll, IsV4))
         /\ Range(TxtLines(<<"resolvers/global/all-ipv6.txt">>)) = IpsOf(SelectSeq(coll, IsV6))
         /\ Range(TxtLines(<<"resolvers/global/trusted.txt">>))
              = IpsOf(SelectSeq(SelectSeq(coll, IsV4), IsTrusted))
         /\ \A code \in {r.country_code.s : r \in Range(SelectSeq(coll, HasCountryV4))} :
              Range(TxtLines(<<"resolvers/by-country/", code, ".txt">>))
                = IpsOf(SelectSeq(coll, LAMBDA r : InCountryV4(r, code)))
         /\ files[<<"data/resolvers.json">>].resolvers
              = [i \in 1..Len(coll) |-> to_json_dict(coll[i])]
         /\ files[<<"data/resolvers.csv">>].rows
              = [i \in 1..Len(coll) |-> to_csv_row(coll[i])]

C11_Witness ==
    /\ LastRunOk
    /\ coll = <<from_api_response(RecTextFlag).r, from_api_response(RecNullContinent).r,
                from_api_response(RecOnlineV4).r>>
    /\ coll[1].ip = coll[2].ip
    /\ coll[1] # coll[2]
    /\ TxtLines(<<"resolvers/global/all.txt">>) = <<"1.1.1.1", "8.8.8.8">>
    /\ TxtTotal(<<"resolvers/global/all.txt">>) = 2
    /\ Len(files[<<"data/resolvers.json">>].resolvers) = 3
    /\ Len(files[<<"data/resolvers.csv">>].rows) = 3

\* the number of records of coll whose field key is the (non-empty) value k
Tally(key, k) == Cardinality({i \in 1..Len(coll) : coll[i][key] = k})

\* the non-empty values of the field key in coll
Tallied(key) == {coll[i][key] : i \in {j \in 1..Len(coll) : NonEmptyCode(coll[j][key])}}

NonIncreasing(entries) ==
    \A i \in 1..(Len(entries) - 1) : entries[i].count >= entries[i + 1].count

\* C12: by_country is in non-increasing order of count and has one entry,
\* with the right count, for every distinct non-empty country code;
\* top_organizations is in non-increasing order of count, has
\* min(20, number of organizations) entries, each a distinct organization
\* with its count, and no organization left out has a greater count than
\* one that is in.
C12_Rankings ==
    agg # IdleAgg =>
      /\ NonIncreasing(agg.by_country)
      /\ {agg.by_country[i].code : i \in 1..Len(agg.by_country)} = Tallied(KeyCountry)
      /\ Len(agg.by_country) = Cardinality(Tallied(KeyCountry))
      /\ \A i \in 1..Len(agg.by_country) :
           agg.by_country[i].count = Tally(KeyCountry, agg.by_country[i].code)
      /\ NonIncreasing(agg.top_organizations)
      /\ Len(agg.top_organizations) <= TopOrganizations
      /\ Len(agg.top_organizations)
           = Min(TopOrganizations, Cardinality(Tallied(KeyOrganization)))
      /\ \A i \in 1..Len(agg.top_organizations) :
           /\ agg.top_organizations[i].name \in Tallied(KeyOrganization)
           /\ agg.top_organizations[i].count
                = Tally(KeyOrganization, agg.top_organizations[i].name)
           /\ \A j \in 1..Len(agg.top_organizations) :
                agg.top_organizations[j].name = agg.top_organizations[i].name => j = i
      /\ \A o \in Tallied(KeyOrganization) :
           (\A i \in 1..Len(agg.top_organizations) : agg.top_organizations[i].name # o) =>
             \A i \in 1..Len(agg.top_organizations) :
               Tally(KeyOrganization, o) <= agg.top_organizations[i].count

C12_Witness ==
    /\ agg # IdleAgg
    /\ coll = ManyOrgs(MaxOrgs, MaxOrgs, MaxOrgs - 1)
    /\ Cardinality(Tallied(KeyOrganization)) > TopOrganizations
    /\ Len(agg.top_organizations) = TopOrganizations
    /\ agg.top_organizations[1].name = PyStr(OrgNames[MaxOrgs - 1])
    /\ agg.top_organizations[2].name = PyStr(OrgNames[MaxOrgs])
    /\ agg.top_organizations[2].count = 2
    /\ agg.top_organizations[3].count = 1
    /\ Len(agg.by_country) = 3
    /\ agg.by_country[1].count > agg.by_country[3].count

\* the call recorded as run left what a call on an empty disk leaves
SameOutcome(run, fresh) ==
    /\ run.raised = fresh.raised
    /\ run.stats = fresh.stats
    /\ DOMAIN fresh.files \subseteq DOMAIN run.files
    /\ \A p \in DOMAIN fresh.files : run.files[p] = fresh.files[p]

\* C13: two calls of generate_all on the same collection with the same
\* timestamp end the same way, return the same stats and leave the same
\* files with the same contents; and what a call writes is what it writes
\* on an empty disk, whatever files an earlier run left there.
C13_Deterministic ==
    /\ \A i, j \in 1..Len(runs) :
         runs[i].ts = runs[j].ts =>
           /\ runs[i].raised = runs[j].raised
           /\ runs[i].stats = runs[j].stats
           /\ runs[i].files = runs[j].files
    /\ \A i \in 1..Len(runs) :
         SameOutcome(runs[i], generate_all(coll, NoFiles, runs[i].ts))
    /\ runs # <<>> => files = runs[Len(runs)].files /\ stats = runs[Len(runs)].stats

C13_Witness ==
    /\ Len(runs) = 2
    /\ runs[1].ts = runs[2].ts
    /\ runs[1].raised = ""
    /\ Len(coll) >= 2
    /\ coll[1] # coll[2]
    /\ <<"data/by-country/", "FR", ".json">> \in DOMAIN files
    /\ runs[1].files = runs[2].files
    /\ runs[1].stats = runs[2].stats

\* the fetch was started and has ended without a collection to hand on
FetchEndedEmptyHanded == pc = "exit" /\ requested # <<>> /\ all_servers = <<>>

\* C14 as stated: the fetch requests at most floor(total / per_page) + 1
\* pages and issues at most max_retries GETs for each, so it ends; and it
\* ends in one of two ways only, by returning its collection (which main
\* rejects when it is empty) or by raising the transport error.
C14_FetchEnds ==
    /\ Len(requested) <= (Len(remote) \div config.per_page) + 1
    /\ \A p \in 1..page : GetsOn(p) <= config.max_retries
    /\ attempt < config.max_retries
    /\ pc \in {"returned", "generate"} => Len(ApiPage(page)) < config.per_page
    /\ FetchEndedEmptyHanded => exit_path \in {"transport", "empty"}

====
